---- MODULE Spec2Model ----
(***************************************************************************)
(* Model of TM1py/Services/SubsetService.py: the requests each operation   *)
(* of SubsetService sends through the REST transport, and the diff-and-    *)
(* patch procedure of update_static_subset.                                *)
(*                                                                         *)
(* A URL is modelled by its segments (dimension, hierarchy, collection,    *)
(* subset name, sub-resource, element, query); format_url's escaping is    *)
(* outside this model.  The transport answers every request either with a  *)
(* response carrying a status code or by raising.                          *)
(***************************************************************************)
EXTENDS Integers, Sequences, FiniteSets, TLC

\* ---------------------------------------------------------------- bounds
MaxLen == 3          \* longest element list (caller's and server's)
MaxTuples == 2       \* longest result of the MDX resolver
MaxMembers == 2      \* widest tuple of the MDX resolver

\* ---------------------------------------------------------------- domains
Elems == {"A", "B", "C", "D"}
MemberNames == {"A", "B"}
None == "<None>"
HierInputs == {None, "", "H1"}
Dim == "D1"
SubsetName == "S1"
Mdx == "{MDX}"

DeleteStatuses == {204, 200, 404}
PatchStatuses == {200, 400}
PostStatuses == {201, 400}

Range(s) == {s[i] : i \in DOMAIN s}
SeqsUpTo(S, n) == UNION {[1..k -> S] : k \in 0..n}
IsInjective(s) == \A i, j \in DOMAIN s : s[i] = s[j] => i = j
\* element lists a caller may pass: any order, repetitions allowed
CallerLists == SeqsUpTo(Elems, MaxLen)
\* element lists the server holds: ordered, without repetition
ElementLists == {s \in CallerLists : IsInjective(s)}
Members == [Name : MemberNames]
Tuples == UNION {[1..k -> Members] : k \in 1..MaxMembers}
ResolverResults == SeqsUpTo(Tuples, MaxTuples)
ServerNameLists == {<<>>, <<"S1">>, <<"S2", "S1">>}

Ops == {"create", "get", "get_all_names", "update", "make_static",
        "update_or_create", "delete", "exists",
        "delete_elements_from_static_subset", "get_element_names"}
SubsetOps == {"create", "update", "update_or_create"}

\* ---------------------------------------------------------------- helpers
\* "PrivateSubsets" if private else "Subsets"
CollectionAlwaysPublic(private) == "Subsets"
Collection(private) == IF private THEN "PrivateSubsets" ELSE "Subsets"

\* hierarchy_name if hierarchy_name else dimension_name
ResolveHierarchyNoneOnly(hierarchy_name, dimension_name) ==
    IF hierarchy_name = None THEN dimension_name ELSE hierarchy_name
ResolveHierarchy(hierarchy_name, dimension_name) ==
    IF hierarchy_name \in {None, ""} THEN dimension_name ELSE hierarchy_name

\* The Subset object: its hierarchy defaults to the dimension when absent.
NewSubset(name, dimension_name, hierarchy_name, is_static, elements, expression) ==
    [name |-> name, dimension_name |-> dimension_name,
     hierarchy_name |-> IF hierarchy_name \in {None, ""} THEN dimension_name
                        ELSE hierarchy_name,
     is_static |-> is_static, elements |-> elements, expression |-> expression]
NoSubset == NewSubset("", "", "", FALSE, <<>>, "")

NoBody == [kind |-> "none", name |-> "", elements |-> <<>>, expression |-> "",
           make_private |-> FALSE]
\* Subset.body: the wire form of the subset as it stands when serialised
SubsetBody(s) == [kind |-> "subset", name |-> s.name, elements |-> s.elements,
                  expression |-> s.expression, make_private |-> FALSE]
\* payload of make_static: Name, MakePrivate, MakeStatic = True
SaveAsBody(subset_name, private) ==
    [kind |-> "saveas", name |-> subset_name, elements |-> <<>>,
     expression |-> "", make_private |-> private]

\* one request as sent to the transport, with the transport's answer
Request(verb, dim, hier, coll, name, sub, elem, query, body, raised, status) ==
    [verb |-> verb, dim |-> dim, hier |-> hier, coll |-> coll, name |-> name,
     sub |-> sub, elem |-> elem, query |-> query, body |-> body,
     raised |-> raised, status |-> status]

NoResult == [kind |-> "none", req |-> 0, status |-> 0, error |-> "",
             names |-> <<>>, flag |-> FALSE]
ResponseOf(i, status) == [NoResult EXCEPT !.kind = "response", !.req = i, !.status = status]
Raise(error) == [NoResult EXCEPT !.kind = "raise", !.error = error]
NamesResult(names) == [NoResult EXCEPT !.kind = "names", !.names = names]
SubsetResult(s) == [NoResult EXCEPT !.kind = "subset", !.names = s.elements, !.flag = s.is_static]
BoolResult(b) == [NoResult EXCEPT !.kind = "bool", !.flag = b]

\* list.remove(x): drops the first occurrence of x
RemoveFirst(s, x) ==
    LET i == CHOOSE k \in DOMAIN s : s[k] = x /\ \A j \in 1..(k-1) : s[j] # x
    IN  [k \in 1..(Len(s) - 1) |-> IF k < i THEN s[k] ELSE s[k + 1]]

\* for element in subset.elements:
\*     if element in original_subset.elements: subset.elements.remove(element)
\* The list iterator is an index into the list being shrunk: it advances by
\* one after every pass, also after a removal has shifted the tail left.
RECURSIVE RemoveLoop(_, _, _)
RemoveLoop(elements, original, i) ==
    IF i > Len(elements) THEN elements
    ELSE IF elements[i] \in Range(original)
         THEN RemoveLoop(RemoveFirst(elements, elements[i]), original, i + 1)
         ELSE RemoveLoop(elements, original, i + 1)
RemovePresent(elements, original) == RemoveLoop(elements, original, 1)

\* for element in original_subset.elements:
\*     if element not in subset.elements: elements_to_be_deleted.append(element)
ElementsToBeDeletedInverted(original, elements) ==
    SelectSeq(original, LAMBDA e : e \in Range(elements))
ElementsToBeDeleted(original, elements) ==
    SelectSeq(original, LAMBDA e : e \notin Range(elements))

\* if response.status_code != 204: return response   (inside the loop)
DeleteLoopReturnsOnError(status) == status >= 300
DeleteLoopReturns(status) == status # 204

\* if response.status_code != 204: return response   (after the delete phase)
UpdateReturnsNever(status) == FALSE
UpdateReturns(status) == status # 204

\* [entry[0]["Name"] for entry in tuples]
LastMemberNames(tuples) == [i \in DOMAIN tuples |-> tuples[i][Len(tuples[i])].Name]
FirstMemberNames(tuples) == [i \in DOMAIN tuples |-> tuples[i][1].Name]

\* if self.exists(...): update  else: create
BranchInverted(found) == IF found THEN "create" ELSE "update"
Branch(found) == IF found THEN "update" ELSE "create"

\* ---------------------------------------------------------------- state
VARIABLES
    pc,                     \* the method about to run, "idle" or "done"
    call,                   \* the caller's operation and arguments
    subset,                 \* the caller's Subset object (elements mutable)
    fetched,                \* the Subset built by get from the server's answer
    elements_to_be_deleted, \* argument of delete_elements_from_static_subset
    idx,                    \* position of the delete loop
    tuples,                 \* what the MDX resolver returned
    resolver_calls,         \* expressions handed to the MDX resolver
    log,                    \* requests sent so far, in order
    result                  \* what the operation returned or raised

vars == <<pc, call, subset, fetched, elements_to_be_deleted, idx, tuples,
          resolver_calls, log, result>>

NoCall == [op |-> "", name |-> "", dim |-> "", hier_in |-> "", private |-> FALSE,
           elements |-> <<>>]

Init ==
    /\ pc = "idle"
    /\ call = NoCall
    /\ subset = NoSubset
    /\ fetched = NoSubset
    /\ elements_to_be_deleted = <<>>
    /\ idx = 1
    /\ tuples = <<>>
    /\ resolver_calls = <<>>
    /\ log = <<>>
    /\ result = NoResult

\* ---------------------------------------------------------------- transport
Outcomes(statuses) ==
    {[raised |-> TRUE, status |-> 0]} \cup {[raised |-> FALSE, status |-> s] : s \in statuses}
\* the existence helper answers found (200), not found (404), or raises
ProbeOutcomes == Outcomes({200, 404})
Found(o) == o.status = 200
ResultOfOutcome(o) ==
    IF o.raised THEN Raise("TransportError") ELSE ResponseOf(Len(log) + 1, o.status)
FetchedSubsets ==
    {NewSubset(SubsetName, Dim, Dim, TRUE, e, "") : e \in ElementLists}
        \cup {NewSubset(SubsetName, Dim, Dim, FALSE, <<>>, Mdx)}

Finish(r, res) ==
    /\ log' = Append(log, r)
    /\ result' = res
    /\ pc' = "done"

\* ---------------------------------------------------------------- requests
CreateRequest(s, private, o) ==
    Request("POST", s.dimension_name, s.hierarchy_name, Collection(private),
            "", "", "", "", SubsetBody(s), o.raised, o.status)
GetRequest(subset_name, dimension_name, hierarchy_name, private, o) ==
    Request("GET", dimension_name, ResolveHierarchy(hierarchy_name, dimension_name),
            Collection(private), subset_name, "", "", "expand", NoBody,
            o.raised, o.status)
GetAllNamesRequest(dimension_name, hierarchy_name, private, o) ==
    Request("GET", dimension_name, ResolveHierarchy(hierarchy_name, dimension_name),
            Collection(private), "", "", "", "names", NoBody, o.raised, o.status)
PatchRequest(s, private, o) ==
    Request("PATCH", s.dimension_name, s.hierarchy_name, Collection(private),
            s.name, "", "", "", SubsetBody(s), o.raised, o.status)
MakeStaticRequest(subset_name, dimension_name, hierarchy_name, private, o) ==
    Request("POST", dimension_name, ResolveHierarchy(hierarchy_name, dimension_name),
            Collection(private), subset_name, "tm1.SaveAs", "", "",
            SaveAsBody(subset_name, private), o.raised, o.status)
DeleteRequest(subset_name, dimension_name, hierarchy_name, private, o) ==
    Request("DELETE", dimension_name, ResolveHierarchy(hierarchy_name, dimension_name),
            Collection(private), subset_name, "", "", "", NoBody, o.raised, o.status)
ExistsRequest(subset_name, dimension_name, hierarchy_name, private, o) ==
    Request("GET", dimension_name, ResolveHierarchy(hierarchy_name, dimension_name),
            Collection(private), subset_name, "", "", "", NoBody, o.raised, o.status)
DeleteElementRequest(element_name, dimension_name, hierarchy_name, subset_name, private, o) ==
    Request("DELETE", dimension_name, ResolveHierarchy(hierarchy_name, dimension_name),
            Collection(private), subset_name, "Elements", element_name, "", NoBody,
            o.raised, o.status)

\* ---------------------------------------------------------------- the caller
Invoke ==
    /\ pc = "idle"
    /\ \E o \in Ops, h \in HierInputs, p \in BOOLEAN :
         /\ pc' = o
         /\ \/ /\ o \in SubsetOps
               /\ \E e \in CallerLists :
                    /\ subset' = NewSubset(SubsetName, Dim, h, TRUE, e, "")
                    /\ call' = [op |-> o, name |-> SubsetName, dim |-> Dim,
                                hier_in |-> h, private |-> p, elements |-> e]
               /\ UNCHANGED elements_to_be_deleted
            \/ /\ o \in SubsetOps
               /\ subset' = NewSubset(SubsetName, Dim, h, FALSE, <<>>, Mdx)
               /\ call' = [op |-> o, name |-> SubsetName, dim |-> Dim,
                           hier_in |-> h, private |-> p, elements |-> <<>>]
               /\ UNCHANGED elements_to_be_deleted
            \/ /\ o = "delete_elements_from_static_subset"
               /\ \E e \in CallerLists :
                    /\ elements_to_be_deleted' = e
                    /\ call' = [op |-> o, name |-> SubsetName, dim |-> Dim,
                                hier_in |-> h, private |-> p, elements |-> e]
               /\ UNCHANGED subset
            \/ /\ o \notin SubsetOps \cup {"delete_elements_from_static_subset"}
               /\ call' = [op |-> o, name |-> SubsetName, dim |-> Dim,
                           hier_in |-> h, private |-> p, elements |-> <<>>]
               /\ UNCHANGED <<subset, elements_to_be_deleted>>
    /\ UNCHANGED <<fetched, idx, tuples, resolver_calls, log, result>>

Return ==
    /\ pc = "done"
    /\ pc' = "idle"
    /\ call' = NoCall
    /\ subset' = NoSubset
    /\ fetched' = NoSubset
    /\ elements_to_be_deleted' = <<>>
    /\ idx' = 1
    /\ tuples' = <<>>
    /\ resolver_calls' = <<>>
    /\ log' = <<>>
    /\ result' = NoResult

\* ---------------------------------------------------------------- operations
create ==
    /\ pc = "create"
    /\ \E o \in Outcomes(PostStatuses) :
         Finish(CreateRequest(subset, call.private, o), ResultOfOutcome(o))
    /\ UNCHANGED <<call, subset, fetched, elements_to_be_deleted, idx, tuples,
                   resolver_calls>>

get ==
    /\ pc = "get"
    /\ \/ /\ Finish(GetRequest(call.name, call.dim, call.hier_in, call.private,
                               [raised |-> TRUE, status |-> 0]),
                    Raise("TransportError"))
          /\ UNCHANGED fetched
       \/ \E s \in FetchedSubsets :
            /\ Finish(GetRequest(call.name, call.dim, call.hier_in, call.private,
                                 [raised |-> FALSE, status |-> 200]),
                      SubsetResult(s))
            /\ fetched' = s
    /\ UNCHANGED <<call, subset, elements_to_be_deleted, idx, tuples, resolver_calls>>

get_all_names ==
    /\ pc = "get_all_names"
    /\ \/ Finish(GetAllNamesRequest(call.dim, call.hier_in, call.private,
                                    [raised |-> TRUE, status |-> 0]),
                 Raise("TransportError"))
       \/ \E names \in ServerNameLists :
            Finish(GetAllNamesRequest(call.dim, call.hier_in, call.private,
                                      [raised |-> FALSE, status |-> 200]),
                   NamesResult(names))
    /\ UNCHANGED <<call, subset, fetched, elements_to_be_deleted, idx, tuples,
                   resolver_calls>>

update ==
    /\ pc = "update"
    /\ IF subset.is_static
       THEN /\ pc' = "update_static_subset"
            /\ UNCHANGED <<log, result>>
       ELSE \E o \in Outcomes(PatchStatuses) :
              Finish(PatchRequest(subset, call.private, o), ResultOfOutcome(o))
    /\ UNCHANGED <<call, subset, fetched, elements_to_be_deleted, idx, tuples,
                   resolver_calls>>

make_static ==
    /\ pc = "make_static"
    /\ \E o \in Outcomes(PostStatuses) :
         Finish(MakeStaticRequest(call.name, call.dim, call.hier_in, call.private, o),
                ResultOfOutcome(o))
    /\ UNCHANGED <<call, subset, fetched, elements_to_be_deleted, idx, tuples,
                   resolver_calls>>

update_or_create ==
    /\ pc = "update_or_create"
    /\ \E o \in ProbeOutcomes :
         /\ log' = Append(log, ExistsRequest(subset.name, subset.dimension_name,
                                             subset.hierarchy_name, call.private, o))
         /\ IF o.raised
            THEN result' = Raise("TransportError") /\ pc' = "done"
            ELSE result' = result /\ pc' = Branch(Found(o))
    /\ UNCHANGED <<call, subset, fetched, elements_to_be_deleted, idx, tuples,
                   resolver_calls>>

delete ==
    /\ pc = "delete"
    /\ \E o \in Outcomes(DeleteStatuses) :
         Finish(DeleteRequest(call.name, call.dim, call.hier_in, call.private, o),
                ResultOfOutcome(o))
    /\ UNCHANGED <<call, subset, fetched, elements_to_be_deleted, idx, tuples,
                   resolver_calls>>

exists ==
    /\ pc = "exists"
    /\ \E o \in ProbeOutcomes :
         Finish(ExistsRequest(call.name, call.dim, call.hier_in, call.private, o),
                IF o.raised THEN Raise("TransportError") ELSE BoolResult(Found(o)))
    /\ UNCHANGED <<call, subset, fetched, elements_to_be_deleted, idx, tuples,
                   resolver_calls>>

\* the arguments delete_elements_from_static_subset was called with
DeleteArgs ==
    IF call.op = "delete_elements_from_static_subset"
    THEN [dim |-> call.dim, hier |-> call.hier_in, name |-> call.name]
    ELSE [dim |-> subset.dimension_name, hier |-> subset.hierarchy_name,
          name |-> subset.name]

\* what the caller of delete_elements_from_static_subset does with the
\* response it returns: the public caller receives it, update_static_subset
\* returns it when it is not a 204 and goes on to the PATCH otherwise
ReturnFromDelete(status) ==
    IF call.op = "delete_elements_from_static_subset" \/ UpdateReturns(status)
    THEN result' = ResponseOf(Len(log) + 1, status) /\ pc' = "done" /\ idx' = idx
    ELSE result' = result /\ pc' = "update_static_subset_patch" /\ idx' = idx

\* one pass of the loop, or the return after a loop that never ran
delete_elements_from_static_subset ==
    /\ pc = "delete_elements_from_static_subset"
    /\ IF Len(elements_to_be_deleted) = 0
       THEN /\ result' = Raise("UnboundLocalError")
            /\ pc' = "done"
            /\ UNCHANGED <<log, idx>>
       ELSE \E o \in Outcomes(DeleteStatuses) :
              /\ log' = Append(log, DeleteElementRequest(elements_to_be_deleted[idx],
                                       DeleteArgs.dim, DeleteArgs.hier, DeleteArgs.name,
                                       call.private, o))
              /\ IF o.raised
                 THEN result' = Raise("TransportError") /\ pc' = "done" /\ idx' = idx
                 ELSE IF DeleteLoopReturns(o.status) \/ idx = Len(elements_to_be_deleted)
                      THEN ReturnFromDelete(o.status)
                      ELSE result' = result /\ pc' = pc /\ idx' = idx + 1
    /\ UNCHANGED <<call, subset, fetched, elements_to_be_deleted, tuples, resolver_calls>>

get_element_names ==
    /\ pc = "get_element_names"
    /\ \/ /\ Finish(GetRequest(call.name, call.dim, call.hier_in, call.private,
                               [raised |-> TRUE, status |-> 0]),
                    Raise("TransportError"))
          /\ UNCHANGED fetched
       \/ \E s \in FetchedSubsets :
            /\ log' = Append(log, GetRequest(call.name, call.dim, call.hier_in,
                                    call.private, [raised |-> FALSE, status |-> 200]))
            /\ fetched' = s
            /\ result' = result
            /\ pc' = "get_element_names_return"
    /\ UNCHANGED <<call, subset, elements_to_be_deleted, idx, tuples, resolver_calls>>

get_element_names_return ==
    /\ pc = "get_element_names_return"
    /\ IF fetched.is_static
       THEN /\ result' = NamesResult(fetched.elements)
            /\ UNCHANGED <<tuples, resolver_calls>>
       ELSE \E t \in ResolverResults :
              /\ resolver_calls' = Append(resolver_calls, fetched.expression)
              /\ tuples' = t
              /\ result' = NamesResult(FirstMemberNames(t))
    /\ pc' = "done"
    /\ UNCHANGED <<call, subset, fetched, elements_to_be_deleted, idx, log>>

\* get the server's version, drop from subset.elements what the server has,
\* collect what the server has and subset.elements has not, start deleting
update_static_subset ==
    /\ pc = "update_static_subset"
    /\ \/ /\ Finish(GetRequest(subset.name, subset.dimension_name, subset.hierarchy_name,
                               call.private, [raised |-> TRUE, status |-> 0]),
                    Raise("TransportError"))
          /\ UNCHANGED <<subset, fetched, elements_to_be_deleted>>
       \/ \E s \in FetchedSubsets :
            /\ log' = Append(log, GetRequest(subset.name, subset.dimension_name,
                                    subset.hierarchy_name, call.private,
                                    [raised |-> FALSE, status |-> 200]))
            /\ fetched' = s
            /\ subset' = [subset EXCEPT !.elements = RemovePresent(@, s.elements)]
            /\ elements_to_be_deleted' =
                   ElementsToBeDeleted(s.elements, RemovePresent(subset.elements, s.elements))
            /\ result' = result
            /\ pc' = "delete_elements_from_static_subset"
    /\ UNCHANGED <<call, idx, tuples, resolver_calls>>

update_static_subset_patch ==
    /\ pc = "update_static_subset_patch"
    /\ \E o \in Outcomes(PatchStatuses) :
         Finish(PatchRequest(subset, call.private, o), ResultOfOutcome(o))
    /\ UNCHANGED <<call, subset, fetched, elements_to_be_deleted, idx, tuples,
                   resolver_calls>>

Next ==
    \/ Invoke
    \/ Return
    \/ create
    \/ get
    \/ get_all_names
    \/ update
    \/ make_static
    \/ update_or_create
    \/ delete
    \/ exists
    \/ delete_elements_from_static_subset
    \/ get_element_names
    \/ get_element_names_return
    \/ update_static_subset
    \/ update_static_subset_patch

Spec == Init /\ [][Next]_vars

\* ---------------------------------------------------------------- vocabulary
\* a static update is running or has run, directly or through update_or_create
StaticUpdate ==
    /\ subset.is_static
    /\ \/ call.op = "update"
       \/ call.op = "update_or_create" /\ Len(log) >= 1 /\ ~log[1].raised /\ Found(log[1])
\* the requests of update: everything after update_or_create's probe
UpdLog == IF call.op = "update_or_create" THEN SubSeq(log, 2, Len(log)) ELSE log
\* the GET of update_static_subset has answered and the diff has been computed
DiffDone == StaticUpdate /\ Len(UpdLog) >= 1 /\ ~UpdLog[1].raised
IsElementDelete(r) == r.verb = "DELETE" /\ r.sub = "Elements"
IsProbe(r) == r.verb = "GET" /\ r.query = "" /\ r.sub = "" /\ r.name # ""
\* the elements DELETE requests were sent for, in the order sent
DeletedNames ==
    LET d == SelectSeq(log, IsElementDelete) IN [i \in DOMAIN d |-> d[i].elem]
PatchIssued == \E i \in DOMAIN log : log[i].verb = "PATCH"
RECURSIVE IsSubSeqFrom(_, _, _, _)
\* s[i..] can be matched, in order, against distinct positions of t[j..]
IsSubSeqFrom(s, t, i, j) ==
    IF i > Len(s) THEN TRUE
    ELSE IF j > Len(t) THEN FALSE
    ELSE IF s[i] = t[j] THEN IsSubSeqFrom(s, t, i + 1, j + 1)
    ELSE IsSubSeqFrom(s, t, i, j + 1)
IsSubSeq(s, t) == IsSubSeqFrom(s, t, 1, 1)

\* ---------------------------------------------------------------- claims
\* C1: once a static update has got through its delete phase, DELETE
\* requests have been sent for exactly the server's elements that are absent
\* from the element list the caller passed in.
C1_DeletesOriginalMinusDesired ==
    (DiffDone /\ PatchIssued) =>
        DeletedNames = SelectSeq(fetched.elements, LAMBDA e : e \notin Range(call.elements))

\* C2: after the diff phase the caller's subset.elements, and with it the
\* body of the final PATCH, holds exactly the desired elements the server
\* does not have.
C2_ResidualIsDesiredMinusOriginal ==
    DiffDone =>
        /\ Range(subset.elements) = Range(call.elements) \ Range(fetched.elements)
        /\ \A i \in DOMAIN log : log[i].verb = "PATCH" =>
               Range(log[i].body.elements) = Range(call.elements) \ Range(fetched.elements)

\* C3: a per-element DELETE answered with a status other than 204 is the last
\* request of the operation: no DELETE and no PATCH follows it, and the
\* operation has returned exactly that response.
C3_ShortCircuitOnFailedDelete ==
    \A i \in DOMAIN log :
        (IsElementDelete(log[i]) /\ ~log[i].raised /\ log[i].status # 204) =>
            /\ i = Len(log)
            /\ pc = "done"
            /\ result = ResponseOf(i, log[i].status)
            /\ ~PatchIssued
\* a static update stopped by a DELETE answered 200, after an earlier DELETE
\* had already gone through
C3_Witness ==
    /\ StaticUpdate /\ pc = "done"
    /\ Len(DeletedNames) >= 2
    /\ log[Len(log)].status = 200 /\ IsElementDelete(log[Len(log)])
    /\ result.kind = "response" /\ result.status = 200

\* C4: a static update with nothing to delete sends no DELETE, still sends
\* the PATCH, and returns normally instead of failing on an unset response.
C4_NothingToDeleteStillPatches ==
    (DiffDone /\ pc = "done" /\ elements_to_be_deleted = <<>>) =>
        /\ DeletedNames = <<>>
        /\ PatchIssued
        /\ result.error # "UnboundLocalError"

\* C5: update_or_create probes first, then takes one branch: when the subset
\* exists only requests of update follow and never a POST, when it does not
\* exist exactly one POST to the collection follows and nothing else; the
\* response returned is the branch's, and probe and branch address the same
\* dimension, hierarchy, collection and subset.
C5_ProbeThenOneBranch ==
    (call.op = "update_or_create" /\ Len(log) >= 1) =>
        /\ IsProbe(log[1])
        /\ log[1].name = subset.name
        /\ Len(log) >= 2 => ~log[1].raised
        /\ \A i \in 2..Len(log) :
             /\ log[i].dim = log[1].dim
             /\ log[i].hier = log[1].hier
             /\ log[i].coll = log[1].coll
             /\ IF Found(log[1])
                THEN log[i].verb \in {"GET", "DELETE", "PATCH"} /\ log[i].name = log[1].name
                ELSE /\ Len(log) = 2
                     /\ log[i].verb = "POST" /\ log[i].name = "" /\ log[i].sub = ""
                     /\ log[i].body.name = log[1].name
        /\ (pc = "done" /\ ~log[1].raised) => Len(log) >= 2
        /\ (pc = "done" /\ result.kind = "response") => result.req = Len(log) /\ Len(log) >= 2
        /\ (pc = "done" /\ log[1].raised) => result.kind = "raise"
\* the probe found the subset and the static update ran to its PATCH
C5_Witness ==
    /\ call.op = "update_or_create" /\ pc = "done"
    /\ Found(log[1]) /\ PatchIssued /\ Len(DeletedNames) >= 1
    /\ result.kind = "response"

\* C6: every request addresses "PrivateSubsets" when private is true and
\* "Subsets" when it is false.
C6_CollectionFollowsPrivate ==
    \A i \in DOMAIN log :
        log[i].coll = (IF call.private THEN "PrivateSubsets" ELSE "Subsets")
\* a private update_or_create that probed, fetched, deleted and patched
C6_Witness ==
    /\ call.private /\ call.op = "update_or_create" /\ pc = "done"
    /\ PatchIssued /\ Len(DeletedNames) >= 1

\* C7: when the caller leaves the hierarchy out (None or empty), the
\* hierarchy segment of every URL is the dimension name.
C7_AbsentHierarchyIsDimension ==
    call.hier_in \in {None, ""} => \A i \in DOMAIN log : log[i].hier = call.dim
\* a per-element delete called with an empty hierarchy name has sent requests
C7_Witness ==
    /\ call.hier_in = "" /\ call.op = "delete_elements_from_static_subset"
    /\ pc = "done" /\ Len(log) >= 2

\* C8: get_element_names sends get's request; for a static subset it returns
\* the subset's elements and never calls the resolver, for a dynamic one it
\* calls the resolver once with the expression and returns the Name of the
\* first member of every tuple, in the resolver's order.
C8_ElementNames ==
    (call.op = "get_element_names" /\ pc = "done" /\ result.kind = "names") =>
        /\ Len(log) = 1 /\ log[1].verb = "GET" /\ log[1].query = "expand"
        /\ IF fetched.is_static
           THEN result.names = fetched.elements /\ resolver_calls = <<>>
           ELSE /\ resolver_calls = <<fetched.expression>>
                /\ Len(result.names) = Len(tuples)
                /\ \A i \in DOMAIN tuples : result.names[i] = tuples[i][1].Name
\* a dynamic subset whose resolver returned two tuples, the first of them
\* with two members of different names
C8_Witness ==
    /\ call.op = "get_element_names" /\ pc = "done" /\ ~fetched.is_static
    /\ Len(tuples) = 2 /\ Len(tuples[1]) = 2
    /\ tuples[1][1].Name # tuples[1][2].Name
    /\ tuples[1][1].Name # tuples[2][1].Name

\* C9: in a static update the GET comes first; only per-element DELETEs and
\* one PATCH follow it; every DELETE but the last sent was answered 204; the
\* DELETEs follow the order of the server's element list, one per listed
\* element at most; the PATCH comes last, after DELETEs all answered 204;
\* nothing follows a failed GET.
C9_RequestOrder ==
    (StaticUpdate /\ Len(UpdLog) >= 1) =>
        /\ UpdLog[1].verb = "GET" /\ UpdLog[1].query = "expand"
        /\ UpdLog[1].raised => Len(UpdLog) = 1
        /\ \A i \in 2..Len(UpdLog) :
             /\ IsElementDelete(UpdLog[i]) \/ UpdLog[i].verb = "PATCH"
             /\ i < Len(UpdLog) =>
                  /\ IsElementDelete(UpdLog[i])
                  /\ ~UpdLog[i].raised /\ UpdLog[i].status = 204
             /\ UpdLog[i].verb = "PATCH" =>
                  /\ i = Len(UpdLog)
                  /\ \A j \in 2..(i - 1) : UpdLog[j].status = 204
        /\ IsSubSeq(DeletedNames, fetched.elements)
\* GET, two DELETEs answered 204, PATCH
C9_Witness ==
    /\ StaticUpdate /\ call.op = "update" /\ pc = "done"
    /\ Len(log) = 4 /\ log[4].verb = "PATCH"
    /\ IsElementDelete(log[2]) /\ IsElementDelete(log[3])

\* C10: the elements handed to the delete phase are the server's elements
\* missing from subset.elements as the removal loop left it; so nothing is
\* both deleted and in the PATCH body, and every element of the server is
\* deleted or in the PATCH body.
C10_DeleteListFromResidual ==
    DiffDone =>
        /\ Range(elements_to_be_deleted) = Range(fetched.elements) \ Range(subset.elements)
        /\ Range(DeletedNames) \subseteq Range(elements_to_be_deleted)
        /\ Range(DeletedNames) \cap Range(subset.elements) = {}
        /\ \A i \in DOMAIN log : log[i].verb = "PATCH" =>
             /\ log[i].body.elements = subset.elements
             /\ \A e \in Range(fetched.elements) :
                  e \in Range(DeletedNames) \/ e \in Range(log[i].body.elements)
\* a patched update whose delete list differs from the one the element list
\* as passed in would have given
C10_Witness ==
    /\ DiffDone /\ PatchIssued
    /\ Range(fetched.elements) \ Range(subset.elements)
           # Range(fetched.elements) \ Range(call.elements)
====
